---- MODULE Spec2Model ----
(***************************************************************************)
(* A model of h5ncml/h5ncml.py: the conversion of the structural metadata  *)
(* of an HDF5 file into an NcML document.                                  *)
(*                                                                         *)
(* HDF5 object names are sequences of link names (the root group is the    *)
(* empty sequence); PathStr gives the absolute name as text.  Byte strings *)
(* are sequences of text chunks, so that a prefix test is a real test.     *)
(* lxml elements live in a heap (elems), identified by their index, since  *)
(* grp_node holds references to elements that are also children of other   *)
(* elements.  An exception is the name of its Python class, "none" when    *)
(* nothing was raised.                                                     *)
(***************************************************************************)
EXTENDS Integers, Sequences, FiniteSets, TLC

VARIABLES
    grp_node,   \* the module-level dict: object name -> element (heap index)
    elems,      \* the heap of lxml elements created so far
    f,          \* the h5py.File handle of the current call: "none", "open", "closed"
    pc,         \* where the process is: "idle", "visiting", "returned", "raised"
    exc,        \* the exception that ended the current call, "none" otherwise
    root,       \* the root element of the current call's document (0: none yet)
    visited,    \* the objects processed in this call: the root group, then
                \* those the visitor has passed to objinfo, as [name, obj]
    ncalls,     \* the number of h5toncml calls started
    nvisits,    \* the number of objinfo callbacks made, over all calls
    arg,        \* argument of a pure function under test
    ret         \* its result

vars == <<grp_node, elems, f, pc, exc, root, visited, ncalls, nvisits, arg, ret>>

-----------------------------------------------------------------------------
(* Bounds of the model. *)

\* h5toncml calls made by the process
MaxCalls == 2
\* objects visited by the process, over all its calls
MaxObjs == 3
\* attributes on one object
MaxAttrs == 2

-----------------------------------------------------------------------------
(* Names, text and byte strings. *)

Root == << >>

Names == {"a", "b"}

Parent(name) == SubSeq(name, 1, Len(name) - 1)

basename(name) == IF name = Root THEN "" ELSE name[Len(name)]

RECURSIVE PathTail(_)
PathTail(name) ==
    IF name = << >> THEN "" ELSE "/" \o Head(name) \o PathTail(Tail(name))

\* the absolute name of an object, h5py's obj.name
PathStr(name) == IF name = Root THEN "/" ELSE PathTail(name)

Digits == <<"0", "1", "2", "3", "4", "5", "6", "7", "8", "9">>

\* str() of a non-negative integer
RECURSIVE str(_)
str(n) == IF n < 10 THEN Digits[n + 1] ELSE str(n \div 10) \o Digits[(n % 10) + 1]

\* ' '.join(seq)
RECURSIVE join(_)
join(seq) ==
    IF seq = << >> THEN ""
    ELSE IF Len(seq) = 1 THEN seq[1]
    ELSE seq[1] \o " " \o join(Tail(seq))

\* bytes.decode('utf-8'): the text of a byte string
RECURSIVE decode(_)
decode(b) == IF b = << >> THEN "" ELSE Head(b) \o decode(Tail(b))

\* bytes.startswith(prefix)
startswith(b, prefix) ==
    /\ Len(b) >= Len(prefix)
    /\ SubSeq(b, 1, Len(prefix)) = prefix

DimOnlyMarker == <<"This is a netCDF dimension but not a netCDF variable.">>

DIMENSION_SCALE == <<"DIMENSION_SCALE">>

\* a slip: NAME is not held back
InternalNames_NoNAME == {"CLASS", "REFERENCE_LIST", "DIMENSION_LIST"}

\* line 105
InternalNames == {"CLASS", "REFERENCE_LIST", "DIMENSION_LIST", "NAME"}

-----------------------------------------------------------------------------
(* HDF5 datatypes and their translation. *)

KnownClasses ==
    {"INTEGER", "FLOAT", "TIME", "STRING", "BITFIELD", "OPAQUE", "COMPOUND",
     "REFERENCE", "ENUM", "VLEN", "ARRAY"}

\* "NO_CLASS" and "NCLASSES" are the values of H5T_class_t that name no class
Classes == KnownClasses \cup {"NO_CLASS", "NCLASSES"}

Sizes == {1, 2, 3, 4, 8, 16}

Signs == {"SGN_NONE", "SGN_2"}

TypeDescs == [cls : Classes, size : Sizes, sign : Signs]

T(cls, size, sign) == [cls |-> cls, size |-> size, sign |-> sign]

Returned(t, u) == [exc |-> "none", type |-> t, unsigned |-> u]

Raised(e) == [exc |-> e, type |-> "", unsigned |-> FALSE]

\* a slip: the names of the 4-byte and the 8-byte integer are exchanged
IntNames_Swapped == [s \in {1, 2, 4, 8} |->
                CASE s = 1 -> "byte" [] s = 2 -> "short" [] s = 4 -> "long" [] s = 8 -> "int"]

\* lines 40-43
IntNames == [s \in {1, 2, 4, 8} |->
                CASE s = 1 -> "byte" [] s = 2 -> "short" [] s = 4 -> "int" [] s = 8 -> "long"]

\* lines 49-50
FloatNames == [s \in {4, 8} |-> IF s = 4 THEN "float" ELSE "double"]

\* a slip: enum is refused as unsupported instead of not yet supported
unmapped_class_EnumUnsupported(cls) ==
    CASE cls \in {"TIME", "BITFIELD", "REFERENCE", "ARRAY", "ENUM"} -> "TypeError"
      [] cls = "VLEN" -> "NotImplementedError"
      [] OTHER -> "ValueError"

\* the exception of a class that has no NcML type
unmapped_class(cls) ==
    CASE cls \in {"TIME", "BITFIELD", "REFERENCE", "ARRAY"} -> "TypeError"
      [] cls \in {"ENUM", "VLEN"} -> "NotImplementedError"
      [] OTHER -> "ValueError"

ncml_dtype(tobj) ==
    CASE tobj.cls = "INTEGER" ->
            IF tobj.size \in DOMAIN IntNames
            THEN Returned(IntNames[tobj.size], tobj.sign = "SGN_NONE")
            ELSE Raised("KeyError")
      [] tobj.cls = "FLOAT" ->
            IF tobj.size \in DOMAIN FloatNames
            THEN Returned(FloatNames[tobj.size], FALSE)
            ELSE Raised("KeyError")
      [] tobj.cls = "STRING" -> Returned("String", FALSE)
      [] tobj.cls = "OPAQUE" -> Returned("opaque", FALSE)
      [] tobj.cls = "COMPOUND" -> Returned("Structure", FALSE)
      [] OTHER -> Raised(unmapped_class(tobj.cls))

-----------------------------------------------------------------------------
(* Attributes. *)

Attr(name, type, shape, value) ==
    [name |-> name, type |-> type, shape |-> shape, value |-> value]

\* an object reference: to the object of that name, or a null reference
Ref(name) == [ok |-> TRUE, name |-> name]
NullRef == [ok |-> FALSE, name |-> Root]

StrT == T("STRING", 16, "SGN_2")

AttrCatalog ==
    { Attr("CLASS", StrT, << >>, DIMENSION_SCALE),
      Attr("CLASS", StrT, << >>, <<"IMAGE">>),
      Attr("REFERENCE_LIST", T("COMPOUND", 16, "SGN_2"), <<1>>, << >>),
      Attr("NAME", StrT, << >>, DimOnlyMarker \o <<"         5">>),
      Attr("NAME", StrT, << >>, <<"lat">>),
      Attr("DIMENSION_LIST", T("VLEN", 16, "SGN_2"), <<1>>, << <<Ref(<<"lat">>)>> >>),
      Attr("DIMENSION_LIST", T("VLEN", 16, "SGN_2"), <<2>>,
           << <<Ref(<<"a", "lon">>), Ref(<<"lat">>)>>, <<Ref(<<"lat">>)>> >>),
      Attr("DIMENSION_LIST", T("VLEN", 16, "SGN_2"), <<1>>, << << >> >>),
      Attr("DIMENSION_LIST", T("VLEN", 16, "SGN_2"), <<1>>, << <<NullRef>> >>),
      Attr("units", StrT, << >>, <<"meters">>),
      Attr("scale", T("INTEGER", 2, "SGN_NONE"), <<3>>, <<1, 2, 30>>),
      Attr("flags", T("BITFIELD", 1, "SGN_2"), << >>, 1),
      Attr("_Unsigned", StrT, <<1>>, << <<"true">> >>) }

NamesDistinct(attrs) ==
    \A i, j \in 1..Len(attrs) : attrs[i].name = attrs[j].name => i = j

\* the attribute collections of an object, in the host's iteration order
AttrLists ==
    {s \in UNION {[1..n -> AttrCatalog] : n \in 0..MaxAttrs} : NamesDistinct(s)}

HasAttr(attrs, name) == \E i \in 1..Len(attrs) : attrs[i].name = name

\* attrs.get(name, default)
AttrGet(attrs, name, default) ==
    IF HasAttr(attrs, name)
    THEN attrs[CHOOSE i \in 1..Len(attrs) : attrs[i].name = name].value
    ELSE default

RECURSIVE dimscale_loop(_, _, _)
dimscale_loop(attrs, cond1, cond2) ==
    IF attrs = << >> THEN cond1 /\ cond2
    ELSE LET n == Head(attrs).name
             v == Head(attrs).value
         IN dimscale_loop(Tail(attrs),
                          IF n = "CLASS" /\ v = DIMENSION_SCALE THEN TRUE ELSE cond1,
                          IF n = "REFERENCE_LIST" THEN TRUE ELSE cond2)

\* a slip: the REFERENCE_LIST condition starts unsatisfied
is_dimscale_NeedsRefList(attrs) == dimscale_loop(attrs, FALSE, FALSE)

is_dimscale(attrs) == dimscale_loop(attrs, FALSE, TRUE)

-----------------------------------------------------------------------------
(* lxml elements. *)

Elem(tag, attrib) == [tag |-> tag, attrib |-> attrib, children |-> << >>]

\* parent.append(child), both given by their heap index
AppendChild(h, parent, child) ==
    [h EXCEPT ![parent].children = Append(@, child)]

\* [str(v) for v in seq]
str_each(seq) == [i \in 1..Len(seq) |-> str(seq[i])]

\* [v.decode('utf-8') for v in seq]
decode_each(seq) == [i \in 1..Len(seq) |-> decode(seq[i])]

\* np.ravel of an attribute value: a scalar becomes a one-element sequence
ravel(a) == IF a.shape = << >> THEN <<a.value>> ELSE a.value

\* the text do_attributes gives the value of an attribute of NcML type atype
attr_value(a, atype) ==
    IF atype = "String"
    THEN IF Len(a.shape) = 0 THEN decode(a.value) ELSE join(decode_each(ravel(a)))
    ELSE join(str_each(ravel(a)))

\* the <attribute> element of an attribute whose type translated to t
attr_elem(a, t) ==
    Elem("attribute",
         IF t.unsigned
         THEN [name |-> a.name, type |-> t.type, value |-> attr_value(a, t.type),
               isUnsigned |-> "true"]
         ELSE [name |-> a.name, type |-> t.type, value |-> attr_value(a, t.type)])

Outcome(g, h, e) == [grp_node |-> g, elems |-> h, exc |-> e]

\* the loop of do_attributes over attrs, on the heap h, for the element elem
RECURSIVE do_attributes(_, _, _)
do_attributes(h, elem, attrs) ==
    IF attrs = << >> THEN [elems |-> h, exc |-> "none"]
    ELSE LET a == Head(attrs)
             t == ncml_dtype(a.type)
         IN IF a.name \in InternalNames THEN do_attributes(h, elem, Tail(attrs))
            ELSE IF t.exc # "none" THEN [elems |-> h, exc |-> t.exc]
            ELSE do_attributes(AppendChild(Append(h, attr_elem(a, t)), elem, Len(h) + 1),
                               elem, Tail(attrs))

-----------------------------------------------------------------------------
(* HDF5 objects and the visitor callback. *)

NoType == T("NO_CLASS", 1, "SGN_2")

Group(attrs) == [kind |-> "Group", type |-> NoType, shape |-> << >>, attrs |-> attrs]

Dataset(type, shape, attrs) ==
    [kind |-> "Dataset", type |-> type, shape |-> shape, attrs |-> attrs]

\* a committed (named) datatype: an object that is neither group nor dataset
Datatype(type) == [kind |-> "Datatype", type |-> type, shape |-> << >>, attrs |-> << >>]

\* lines 178-180: attach elem under the parent's node, then serialize attributes
attach(g, h, name, obj, elem) ==
    IF Parent(name) \notin DOMAIN g THEN Outcome(g, h, "KeyError")
    ELSE LET r == do_attributes(AppendChild(h, g[Parent(name)], elem), elem, obj.attrs)
         IN Outcome(g, r.elems, r.exc)

\* a slip: every group is attached under the root element
objinfo_group_flat(g, h, name, obj) ==
    IF name \in DOMAIN g THEN Outcome(g, h, "RuntimeError")
    ELSE LET elem == Len(h) + 1
             h1 == Append(h, Elem("group", [name |-> basename(name)]))
             g1 == [n \in DOMAIN g \cup {name} |-> IF n = name THEN elem ELSE g[n]]
             r == do_attributes(AppendChild(h1, g1[Root], elem), elem, obj.attrs)
         IN Outcome(g1, r.elems, r.exc)

\* lines 136-142
objinfo_group(g, h, name, obj) ==
    IF name \in DOMAIN g THEN Outcome(g, h, "RuntimeError")
    ELSE LET elem == Len(h) + 1
             h1 == Append(h, Elem("group", [name |-> basename(name)]))
             g1 == [n \in DOMAIN g \cup {name} |-> IF n = name THEN elem ELSE g[n]]
         IN attach(g1, h1, name, obj, elem)

\* a slip: the last dimension scale attached to the axis is taken
first_ref_Last(entry) == entry[Len(entry)]

\* line 166: obj.attrs['DIMENSION_LIST'][n][0]
first_ref(entry) == entry[1]

\* lines 161-169: the entries of the shape attribute
RECURSIVE dimlist_shape(_, _, _)
dimlist_shape(dl, n, naxes) ==
    IF n > naxes THEN [exc |-> "none", shape |-> << >>]
    ELSE IF n > Len(dl) \/ dl[n] = << >> THEN [exc |-> "IndexError", shape |-> << >>]
    ELSE IF ~first_ref(dl[n]).ok THEN [exc |-> "ValueError", shape |-> << >>]
    ELSE LET rest == dimlist_shape(dl, n + 1, naxes)
         IN [exc |-> rest.exc, shape |-> <<PathStr(first_ref(dl[n]).name)>> \o rest.shape]

dset_shape(obj) ==
    IF HasAttr(obj.attrs, "DIMENSION_LIST")
    THEN dimlist_shape(AttrGet(obj.attrs, "DIMENSION_LIST", << >>), 1, Len(obj.shape))
    ELSE [exc |-> "none", shape |-> str_each(obj.shape)]

\* a slip: the marker is sought only as the whole of NAME
is_dimonly_Exact(attrs) == AttrGet(attrs, "NAME", << >>) = DimOnlyMarker

\* lines 154-155
is_dimonly(attrs) == startswith(AttrGet(attrs, "NAME", << >>), DimOnlyMarker)

\* a slip: every integer variable is marked
with_unsigned_AnyInteger(h, elem, t) ==
    IF t.type \in {"byte", "short", "int", "long"}
    THEN AppendChild(Append(h, Elem("attribute", [name |-> "_Unsigned", value |-> "true"])),
                     elem, Len(h) + 1)
    ELSE h

\* lines 174-175
with_unsigned(h, elem, t) ==
    IF t.unsigned
    THEN AppendChild(Append(h, Elem("attribute", [name |-> "_Unsigned", value |-> "true"])),
                     elem, Len(h) + 1)
    ELSE h

\* lines 158-175 and 178-180: the <variable> of a dataset
objinfo_variable(g, h, name, obj) ==
    LET t == ncml_dtype(obj.type)
        s == dset_shape(obj)
        elem == Len(h) + 1
        h1 == Append(h, Elem("variable", [name |-> basename(name), type |-> t.type,
                                          shape |-> join(s.shape)]))
        h2 == with_unsigned(h1, elem, t)
    IN IF t.exc # "none" THEN Outcome(g, h, t.exc)
       ELSE IF s.exc # "none" THEN Outcome(g, h, s.exc)
       ELSE attach(g, h2, name, obj, elem)

\* lines 144-175
objinfo_dataset(g, h, name, obj) ==
    IF is_dimscale(obj.attrs)
    THEN IF obj.shape = << >> THEN Outcome(g, h, "IndexError")
         ELSE IF Parent(name) \notin DOMAIN g THEN Outcome(g, h, "KeyError")
         ELSE LET h1 == AppendChild(
                            Append(h, Elem("dimension", [name |-> basename(name),
                                                         length |-> str(obj.shape[1])])),
                            g[Parent(name)], Len(h) + 1)
              IN IF is_dimonly(obj.attrs) THEN Outcome(g, h1, "none")
                 ELSE objinfo_variable(g, h1, name, obj)
    ELSE objinfo_variable(g, h, name, obj)

\* what one call of objinfo(name, obj) makes of grp_node and the heap
objinfo_run(g, h, name, obj) ==
    CASE obj.kind = "Group" -> objinfo_group(g, h, name, obj)
      [] obj.kind = "Dataset" -> objinfo_dataset(g, h, name, obj)
      [] OTHER -> Outcome(g, h, "TypeError")

-----------------------------------------------------------------------------
(* The inputs: what the files on disk hold. *)

Float4 == T("FLOAT", 4, "SGN_2")

UnitsAttr == Attr("units", StrT, << >>, <<"meters">>)

FlagsAttr == Attr("flags", T("BITFIELD", 1, "SGN_2"), << >>, 1)

\* attributes of the root group
RootAttrLists ==
    {<< >>, <<UnitsAttr>>, <<FlagsAttr>>,
     <<Attr("NAME", StrT, << >>, <<"lat">>), UnitsAttr>>}

\* objects of the files converted one after the other
TreeObjs ==
    { Group(<< >>), Group(<<UnitsAttr>>),
      Dataset(Float4, <<10>>, << >>),
      Dataset(T("ENUM", 4, "SGN_2"), <<10>>, << >>),
      Datatype(Float4) }

DTypes == {T("INTEGER", 4, "SGN_2"), T("INTEGER", 8, "SGN_NONE"), Float4,
           T("ENUM", 4, "SGN_2")}

Shapes == {<< >>, <<5>>, <<10, 2>>}

\* objects of the single-object files
AnyObjs ==
    {Group(a) : a \in AttrLists}
    \cup {Dataset(x[1], x[2], x[3]) : x \in DTypes \X Shapes \X AttrLists}
    \cup {Datatype(Float4)}

H5FName == "/data/file.h5"

\* urljoin('file:', pathname2url(abspath(h5fname))) of an absolute POSIX path
Location(h5fname) == "file://" \o h5fname

SchemaLocation == "http://www.unidata.ucar.edu/schemas/netcdf/ncml-2.2.xsd"

-----------------------------------------------------------------------------
(* The process: h5toncml calls, one after the other. *)

Init ==
    /\ grp_node = [n \in {} |-> 0]
    /\ elems = << >>
    /\ f = "none"
    /\ pc = "idle"
    /\ exc = "none"
    /\ root = 0
    /\ visited = << >>
    /\ ncalls = 0
    /\ nvisits = 0
    /\ arg = << >>
    /\ ret = << >>

VisitedNames == {visited[i].name : i \in 1..Len(visited)}

VisitedGroups ==
    {visited[i].name : i \in {j \in 1..Len(visited) : visited[j].obj.kind = "Group"}}

\* the names the visitor can pass next: unvisited members of visited groups
NextNames == {Append(p, b) : p \in VisitedGroups, b \in Names} \ VisitedNames

\* h5toncml, lines 192-209: open the file, make the document, serialize the
\* root group's attributes
h5toncml_open(exists, attrs) ==
    /\ pc \in {"idle", "returned", "raised"}
    /\ ncalls' = ncalls + 1
    /\ visited' = <<[name |-> Root, obj |-> Group(attrs)]>>
    /\ IF ~exists
       THEN /\ f' = "none"
            /\ pc' = "raised"
            /\ exc' = "OSError"
            /\ root' = 0
            /\ UNCHANGED <<grp_node, elems>>
       ELSE LET r == Len(elems) + 1
                h1 == Append(elems, Elem("netcdf", [schemaLocation |-> SchemaLocation,
                                                    location |-> Location(H5FName)]))
                g1 == [n \in DOMAIN grp_node \cup {Root} |->
                           IF n = Root THEN r ELSE grp_node[n]]
                res == do_attributes(h1, r, attrs)
            IN /\ f' = "open"
               /\ root' = r
               /\ grp_node' = g1
               /\ elems' = res.elems
               /\ exc' = res.exc
               /\ pc' = IF res.exc = "none" THEN "visiting" ELSE "raised"
    /\ UNCHANGED <<nvisits, arg, ret>>

\* f.visititems(objinfo), line 210: one callback
objinfo(name, obj) ==
    /\ pc = "visiting"
    /\ name \in NextNames
    /\ LET res == objinfo_run(grp_node, elems, name, obj)
       IN /\ grp_node' = res.grp_node
          /\ elems' = res.elems
          /\ exc' = res.exc
          /\ pc' = IF res.exc = "none" THEN "visiting" ELSE "raised"
    /\ visited' = Append(visited, [name |-> name, obj |-> obj])
    /\ nvisits' = nvisits + 1
    /\ UNCHANGED <<f, root, ncalls, arg, ret>>

\* h5toncml, lines 211-213: the visit is over
h5toncml_close ==
    /\ pc = "visiting"
    /\ f' = "closed"
    /\ pc' = "returned"
    /\ UNCHANGED <<grp_node, elems, exc, root, visited, ncalls, nvisits, arg, ret>>

Next ==
    \/ /\ ncalls < MaxCalls
       /\ \E exists \in BOOLEAN, attrs \in RootAttrLists : h5toncml_open(exists, attrs)
    \/ /\ nvisits < MaxObjs /\ pc = "visiting"
       /\ \E name \in NextNames, obj \in TreeObjs : objinfo(name, obj)
    \/ h5toncml_close

Spec == Init /\ [][Next]_vars

\* one conversion of a file that holds one object
NextObj ==
    \/ /\ ncalls = 0
       /\ \E exists \in BOOLEAN, attrs \in RootAttrLists : h5toncml_open(exists, attrs)
    \/ /\ Len(visited) = 1 /\ pc = "visiting"
       /\ \E name \in NextNames, obj \in AnyObjs : objinfo(name, obj)
    \/ h5toncml_close

SpecObj == Init /\ [][NextObj]_vars

-----------------------------------------------------------------------------
(* The pure functions, applied to every input of a bounded set. *)

NoResult == Raised("pending")

InitType ==
    /\ Init!1 /\ Init!2 /\ Init!3 /\ Init!4 /\ Init!5
    /\ Init!6 /\ Init!7 /\ Init!8 /\ Init!9
    /\ arg \in TypeDescs
    /\ ret = NoResult

call_ncml_dtype ==
    /\ pc = "idle"
    /\ ret' = ncml_dtype(arg)
    /\ pc' = "returned"
    /\ UNCHANGED <<grp_node, elems, f, exc, root, visited, ncalls, nvisits, arg>>

SpecType == InitType /\ [][call_ncml_dtype]_vars

InitDimscale ==
    /\ Init!1 /\ Init!2 /\ Init!3 /\ Init!4 /\ Init!5
    /\ Init!6 /\ Init!7 /\ Init!8 /\ Init!9
    /\ arg \in AttrLists
    /\ ret = FALSE

call_is_dimscale ==
    /\ pc = "idle"
    /\ ret' = is_dimscale(arg)
    /\ pc' = "returned"
    /\ UNCHANGED <<grp_node, elems, f, exc, root, visited, ncalls, nvisits, arg>>

SpecDimscale == InitDimscale /\ [][call_is_dimscale]_vars

-----------------------------------------------------------------------------
(* What the claims speak of. *)

Range(seq) == {seq[i] : i \in 1..Len(seq)}

Ended == pc \in {"returned", "raised"}

\* the objects passed to objinfo in this call, as indexes of visited
Visits == 2..Len(visited)

\* the visit of visited[i] returned without raising
Completed(i) == i < Len(visited) \/ exc = "none"

\* the children of the node registered for the parent of visited[i] that have
\* the given tag and the base name of visited[i]
Emitted(i, tag) ==
    LET p == grp_node[Parent(visited[i].name)]
    IN {c \in Range(elems[p].children) :
            /\ elems[c].tag = tag
            /\ elems[c].attrib.name = basename(visited[i].name)}

AttrChildren(e) == SelectSeq(elems[e].children, LAMBDA c : elems[c].tag = "attribute")

\* the synthetic child objinfo gives the <variable> of an unsigned dataset
UnsignedMark == [name |-> "_Unsigned", value |-> "true"]

ClassIsDimScale(attrs) ==
    \E i \in 1..Len(attrs) :
        attrs[i].name = "CLASS" /\ attrs[i].value = <<"DIMENSION_SCALE">>

NameSaysDimOnly(attrs) ==
    \E i \in 1..Len(attrs) :
        /\ attrs[i].name = "NAME"
        /\ attrs[i].value # << >>
        /\ attrs[i].value[1] = "This is a netCDF dimension but not a netCDF variable."

DimOnly(obj) == ClassIsDimScale(obj.attrs) /\ NameSaysDimOnly(obj.attrs)

IsDataset(i) == visited[i].obj.kind = "Dataset"

-----------------------------------------------------------------------------
(* C1: whenever a conversion has ended, by returning the document or by a  *)
(* failure raised while serializing the root's attributes or during the    *)
(* traversal, the file handle it opened is closed.                         *)
C1_FileClosedOnEveryExit == Ended => f # "open"

(* C2: every call starts with a fresh path-to-node mapping (right after    *)
(* the root is registered the mapping holds the root alone), and so no     *)
(* group is ever reported as already having a node: a traversal names each *)
(* object once, so in a fresh process that error cannot arise.             *)
C2_NoStateCrossesCalls ==
    /\ (pc = "visiting" /\ Len(visited) = 1) => DOMAIN grp_node = {Root}
    /\ exc # "RuntimeError"

\* the groups of this call whose node was created and registered
Materialized(i) ==
    /\ visited[i].obj.kind = "Group"
    /\ ~(i = Len(visited) /\ exc \in {"RuntimeError", "KeyError"})

MaterializedGroups(p) ==
    SelectSeq(SubSeq(visited, 2, Len(visited)),
              LAMBDA v : /\ v.obj.kind = "Group"
                         /\ Parent(v.name) = p
                         /\ ~(v = visited[Len(visited)]
                              /\ exc \in {"RuntimeError", "KeyError"}))

GroupChildren(e) == SelectSeq(elems[e].children, LAMBDA c : elems[c].tag = "group")

(* C3: in a conversion, the parent of every object the visitor can pass    *)
(* next is registered in the mapping; every group's <group> element, named *)
(* by the group's base name, is a child of the element registered for its  *)
(* parent path (the root element for a top-level group) and of no other    *)
(* element; and the <group> children of every registered node are the      *)
(* groups visited under that path, in visit order.                         *)
C3_GroupsMirrorHierarchy ==
    (root # 0) =>
        /\ Root \in DOMAIN grp_node /\ grp_node[Root] = root
        /\ \A n \in NextNames : Parent(n) \in DOMAIN grp_node
        /\ \A i \in Visits : Materialized(i) =>
              LET name == visited[i].name
                  e == grp_node[name]
                  p == grp_node[Parent(name)]
              IN /\ elems[e].tag = "group"
                 /\ elems[e].attrib.name = name[Len(name)]
                 /\ {q \in 1..Len(elems) : e \in Range(elems[q].children)} = {p}
                 /\ Cardinality({k \in 1..Len(elems[p].children) :
                                    elems[p].children[k] = e}) = 1
        /\ \A i \in 1..Len(visited) : (i = 1 \/ Materialized(i)) =>
              LET name == visited[i].name
                  below == MaterializedGroups(name)
              IN GroupChildren(grp_node[name])
                     = [k \in 1..Len(below) |-> grp_node[below[k].name]]

\* a second conversion has returned a document with a group inside a group
\* and two sibling groups
C3_Witness ==
    /\ pc = "returned" /\ ncalls = 2
    /\ \E i, j \in Visits :
          /\ Materialized(i) /\ Materialized(j)
          /\ Parent(visited[j].name) = visited[i].name
    /\ Len(GroupChildren(root)) = 2

(* C4 as written: for every visited dataset, a <dimension> with its base   *)
(* name and the decimal first-axis extent is under the parent's node if    *)
(* and only if the dataset is a dimension scale; a <variable> is under the *)
(* parent's node if and only if the dataset is not a dimension-only one; a *)
(* dimension-only dataset gives nothing but its <dimension>; a dataset     *)
(* that is no dimension scale gives exactly one <variable>.                *)
C4_Body(i) ==
    LET obj == visited[i].obj
        dims == Emitted(i, "dimension")
        vrs == Emitted(i, "variable")
        p == grp_node[Parent(visited[i].name)]
    IN /\ (dims # {}) <=> ClassIsDimScale(obj.attrs)
       /\ \A d \in dims : /\ elems[d].attrib.length = str(obj.shape[1])
                          /\ elems[d].children = << >>
       /\ Cardinality(dims) <= 1
       /\ (vrs # {}) <=> ~DimOnly(obj)
       /\ Cardinality(vrs) <= 1
       /\ DimOnly(obj) => Len(elems[p].children) = Len(AttrChildren(p)) + 1

C4_DimensionAndVariable_AsWritten ==
    (root # 0) => \A i \in Visits : IsDataset(i) => C4_Body(i)

(* C4, amended: the same, for every visited dataset whose objinfo call     *)
(* returned without raising.                                               *)
C4_DimensionAndVariable ==
    (root # 0) => \A i \in Visits : (IsDataset(i) /\ Completed(i)) => C4_Body(i)

\* a dimension-only dataset was visited and gave its <dimension>; nothing raised
C4_Witness ==
    /\ pc = "returned" /\ Len(visited) = 2 /\ IsDataset(2)
    /\ DimOnly(visited[2].obj)
    /\ Emitted(2, "dimension") # {}

(* C5: is_dimscale returns true if and only if the mapping has an          *)
(* attribute CLASS whose value is DIMENSION_SCALE; taking REFERENCE_LIST   *)
(* out of the mapping gives the same result.                               *)
C5_DimscaleIffClass ==
    (pc = "returned") =>
        /\ ret <=> ClassIsDimScale(arg)
        /\ ret <=> ClassIsDimScale(SelectSeq(arg, LAMBDA a : a.name # "REFERENCE_LIST"))

\* true was returned for a mapping with CLASS and without REFERENCE_LIST
C5_Witness ==
    /\ pc = "returned" /\ ret = TRUE
    /\ \A i \in 1..Len(arg) : arg[i].name # "REFERENCE_LIST"

(* C6: ncml_dtype gives integer of size 1/2/4/8 the names                  *)
(* byte/short/int/long, float of size 4/8 float/double, string String,     *)
(* opaque opaque, compound Structure; the unsigned flag is true exactly    *)
(* for an integer whose sign is SGN_NONE; an integer or float of another   *)
(* size raises the lookup error.                                           *)
C6_TypeTable ==
    (pc = "returned") =>
        LET ok == ret.exc = "none"
            isint == arg.cls = "INTEGER"
            isflt == arg.cls = "FLOAT"
        IN /\ (isint /\ arg.size = 1) => (ok /\ ret.type = "byte")
           /\ (isint /\ arg.size = 2) => (ok /\ ret.type = "short")
           /\ (isint /\ arg.size = 4) => (ok /\ ret.type = "int")
           /\ (isint /\ arg.size = 8) => (ok /\ ret.type = "long")
           /\ (isflt /\ arg.size = 4) => (ok /\ ret.type = "float")
           /\ (isflt /\ arg.size = 8) => (ok /\ ret.type = "double")
           /\ (arg.cls = "STRING") => (ok /\ ret.type = "String")
           /\ (arg.cls = "OPAQUE") => (ok /\ ret.type = "opaque")
           /\ (arg.cls = "COMPOUND") => (ok /\ ret.type = "Structure")
           /\ ok => (ret.unsigned <=> (isint /\ arg.sign = "SGN_NONE"))
           /\ (isint /\ arg.size \notin {1, 2, 4, 8}) => ret.exc = "KeyError"
           /\ (isflt /\ arg.size \notin {4, 8}) => ret.exc = "KeyError"

\* an 8-byte unsigned integer came back as long, unsigned
C6_Witness ==
    /\ pc = "returned"
    /\ arg = [cls |-> "INTEGER", size |-> 8, sign |-> "SGN_NONE"]
    /\ ret = [exc |-> "none", type |-> "long", unsigned |-> TRUE]

\* the error kinds of the taxonomy, as the Python exceptions that carry them
ErrorKind(e) ==
    CASE e = "TypeError" -> "UnsupportedTypeError"
      [] e = "NotImplementedError" -> "NotYetSupportedError"
      [] e = "ValueError" -> "UnknownTypeError"
      [] e = "KeyError" -> "LookupError"
      [] OTHER -> "none"

(* C7: time, bitfield, reference and array fail with UnsupportedTypeError, *)
(* enum and variable-length with NotYetSupportedError, a class outside the *)
(* known set with UnknownTypeError; none returns a type name, and the      *)
(* lookup error of a bad size is a fourth kind.                            *)
C7_UnmappedClassErrors ==
    (pc = "returned") =>
        /\ (arg.cls \in {"TIME", "BITFIELD", "REFERENCE", "ARRAY"})
              => ErrorKind(ret.exc) = "UnsupportedTypeError"
        /\ (arg.cls \in {"ENUM", "VLEN"}) => ErrorKind(ret.exc) = "NotYetSupportedError"
        /\ (arg.cls \notin {"INTEGER", "FLOAT", "TIME", "STRING", "BITFIELD", "OPAQUE",
                            "COMPOUND", "REFERENCE", "ENUM", "VLEN", "ARRAY"})
              => ErrorKind(ret.exc) = "UnknownTypeError"
        /\ (arg.cls \notin {"INTEGER", "FLOAT", "STRING", "OPAQUE", "COMPOUND"})
              => (ret.exc # "none" /\ ret.type = "")
        /\ ErrorKind(ret.exc) = "LookupError"
              => \/ arg.cls = "INTEGER" /\ arg.size \notin {1, 2, 4, 8}
                 \/ arg.cls = "FLOAT" /\ arg.size \notin {4, 8}

\* an enum was refused as not yet supported
C7_Witness ==
    /\ pc = "returned" /\ arg.cls = "ENUM"
    /\ ret.exc = "NotImplementedError"

\* the element that carries the attributes of visited[i]; 0 when it has none
ElementOf(i) ==
    IF i = 1 THEN root
    ELSE IF visited[i].obj.kind = "Group" THEN grp_node[visited[i].name]
    ELSE IF Emitted(i, "variable") # {} THEN CHOOSE v \in Emitted(i, "variable") : TRUE
    ELSE 0

\* the children of e that do_attributes made: <attribute> elements with a type
Serialized(e) ==
    SelectSeq(elems[e].children,
              LAMBDA c : elems[c].tag = "attribute" /\ "type" \in DOMAIN elems[c].attrib)

(* C8: in a returned document no <attribute> element made by the serializer *)
(* is named CLASS, REFERENCE_LIST, DIMENSION_LIST or NAME, and under the    *)
(* element of the root, of every group and of every variable the           *)
(* serialized attributes are the object's other attributes, one element    *)
(* each, in iteration order.                                               *)
C8_InternalAttributesSuppressed ==
    (pc = "returned") =>
        /\ \A c \in 1..Len(elems) :
              (elems[c].tag = "attribute" /\ "type" \in DOMAIN elems[c].attrib)
                  => elems[c].attrib.name
                        \notin {"CLASS", "REFERENCE_LIST", "DIMENSION_LIST", "NAME"}
        /\ \A i \in 1..Len(visited) : ElementOf(i) # 0 =>
              LET kept == SelectSeq(visited[i].obj.attrs,
                                    LAMBDA a : a.name \notin {"CLASS", "REFERENCE_LIST",
                                                              "DIMENSION_LIST", "NAME"})
                  made == Serialized(ElementOf(i))
              IN /\ Len(made) = Len(kept)
                 /\ \A k \in 1..Len(kept) : elems[made[k]].attrib.name = kept[k].name

\* a variable was returned for a dataset that has NAME and another attribute
C8_Witness ==
    /\ pc = "returned" /\ Len(visited) = 2 /\ IsDataset(2)
    /\ Emitted(2, "variable") # {}
    /\ \E k \in 1..Len(visited[2].obj.attrs) : visited[2].obj.attrs[k].name = "NAME"
    /\ Len(Serialized(ElementOf(2))) = 1

IsUnsignedInteger(type) == type.cls = "INTEGER" /\ type.sign = "SGN_NONE"

(* C9: the <variable> of a dataset has the child                           *)
(* <attribute name="_Unsigned" value="true"> if and only if the dataset's  *)
(* type is an unsigned integer, and that child is then its first child,    *)
(* before every serialized attribute.                                      *)
C9_UnsignedMarkFirst ==
    (root # 0) => \A i \in Visits : IsDataset(i) =>
        \A v \in Emitted(i, "variable") :
            LET kids == elems[v].children
                marks == {k \in 1..Len(kids) : /\ elems[kids[k]].tag = "attribute"
                                               /\ elems[kids[k]].attrib = UnsignedMark}
            IN /\ (marks # {}) <=> IsUnsignedInteger(visited[i].obj.type)
               /\ marks \subseteq {1}

\* an unsigned variable with a serialized attribute after its mark
C9_Witness ==
    /\ pc = "returned" /\ Len(visited) = 2 /\ IsDataset(2)
    /\ IsUnsignedInteger(visited[2].obj.type)
    /\ \E v \in Emitted(2, "variable") :
          /\ Len(elems[v].children) = 3
          /\ elems[elems[v].children[1]].attrib = UnsignedMark

\* the entries the shape of a variable is said to have
ShapeEntries(obj) ==
    LET at == {k \in 1..Len(obj.attrs) : obj.attrs[k].name = "DIMENSION_LIST"}
    IN [n \in 1..Len(obj.shape) |->
           IF at # {}
           THEN PathStr(obj.attrs[CHOOSE k \in at : TRUE].value[n][1].name)
           ELSE str(obj.shape[n])]

(* C10: the shape attribute of the <variable> of a dataset is the          *)
(* space-joined list of one entry per axis, in axis order: the absolute    *)
(* name of the first dataset referenced for the axis when the dataset has  *)
(* DIMENSION_LIST, the decimal axis length when it has not.                *)
C10_ShapeEntries ==
    (root # 0) => \A i \in Visits : IsDataset(i) =>
        \A v \in Emitted(i, "variable") :
            elems[v].attrib.shape = join(ShapeEntries(visited[i].obj))

\* a variable of two axes, the first with two dimension scales attached
C10_Witness ==
    /\ pc = "returned" /\ Len(visited) = 2 /\ IsDataset(2)
    /\ Len(visited[2].obj.shape) = 2
    /\ \E k \in 1..Len(visited[2].obj.attrs) :
          /\ visited[2].obj.attrs[k].name = "DIMENSION_LIST"
          /\ Len(visited[2].obj.attrs[k].value[1]) = 2
    /\ \E v \in Emitted(2, "variable") : elems[v].attrib.shape = "/a/lon /lat"

====
